---- MODULE Spec2Model ----
(***************************************************************************)
(* Model of the qortex MCP adapter: QortexMcpClient (connection lifecycle  *)
(* and callTool) and QortexVector (nine storage operations and four        *)
(* retrieval operations built on callTool).                                *)
(*                                                                         *)
(* JavaScript runs one task at a time and a task gives up control only at  *)
(* an await, so every action below is the code between two awaits of one   *)
(* async call. The MCP SDK (Client, StdioClientTransport) and the remote   *)
(* server are the environment: a handshake succeeds or is rejected, a      *)
(* request is answered or fails because its channel closed, a process may  *)
(* exit.                                                                   *)
(***************************************************************************)
EXTENDS Integers, Sequences, FiniteSets, TLC

\* Bounds of the model.
MaxConn == 2        \* transports that connect() may create in one behaviour
NTasks == 2         \* concurrent callers of the client

Tasks == 1..NTasks

\* Handles. A spawned connection i is the pair transport i / client i that
\* connect() creates together; the pre-supplied client is its own handle.
Null == 0
Conns == 1..MaxConn
SuppliedClient == MaxConn + 1
Handles == 1..(MaxConn + 1)

(***************************************************************************)
(* JavaScript values, as far as the adapter looks at them.                 *)
(***************************************************************************)
Undef == [t |-> "undefined"]
JNull == [t |-> "null"]
Str(s) == [t |-> "string", s |-> s]
Arr(a) == [t |-> "array", a |-> a]
Obj(f) == [t |-> "object", f |-> f]
Num(n) == [t |-> "number", n |-> n]
Bool(b) == [t |-> "boolean", b |-> b]
NoFields == [k \in {} |-> Undef]
EmptyObj == Obj(NoFields)

\* o.k for an object o: undefined when the field is missing.
Get(o, k) == IF k \in DOMAIN o.f THEN o.f[k] ELSE Undef

\* JavaScript truthiness of the values above.
Truthy(v) ==
    /\ v.t \notin {"undefined", "null"}
    /\ ~(v.t = "string" /\ v.s = "")
    /\ ~(v.t = "number" /\ v.n = 0)
    /\ ~(v.t = "boolean" /\ ~v.b)

\* v ?? d
Coalesce(v, d) == IF v.t \in {"undefined", "null"} THEN d ELSE v

\* A default of a parameter or of a destructured field (x = d): it replaces
\* undefined only.
Default(v, d) == IF v.t = "undefined" THEN d ELSE v

\* What a call gave its caller.
Returned(v) == [status |-> "returned", value |-> v]
Threw(kind, msg) == [status |-> "threw", kind |-> kind, message |-> msg]
NoOutcome == [status |-> "none"]

(***************************************************************************)
(* Response texts the remote may send, and JSON.parse on them.             *)
(***************************************************************************)
TxtEmpty == ""
TxtGarbage == "oops"
TxtNull == "null"
TxtEmptyObj == "{}"
TxtError == "{\"error\":\"Dimension mismatch\"}"
TxtErrorEmpty == "{\"error\":\"\"}"
TxtNodeNull == "{\"node\":null}"
TxtNode == "{\"node\":{\"id\":\"n1\"},\"edges\":[],\"neighbors\":[],\"rules\":[]}"
TxtOk == "{\"status\":\"created\"}"
TxtStats == "{\"dimension\":4,\"count\":5,\"metric\":\"cosine\"}"
TxtResultsEmpty == "{\"results\":[]}"
TxtResultsDescending ==
    "{\"results\":[{\"id\":\"v1\",\"score\":95},{\"id\":\"v2\",\"score\":82}]}"
TxtResultsAscending ==
    "{\"results\":[{\"id\":\"v2\",\"score\":82},{\"id\":\"v1\",\"score\":95}]}"
TxtResultsThree ==
    "{\"results\":[{\"id\":\"v1\",\"score\":95},{\"id\":\"v3\",\"score\":90},{\"id\":\"v2\",\"score\":82}]}"

Texts ==
    {TxtEmpty, TxtGarbage, TxtNull, TxtEmptyObj, TxtError, TxtErrorEmpty,
     TxtNodeNull, TxtNode, TxtOk, TxtStats, TxtResultsEmpty, TxtResultsDescending,
     TxtResultsAscending, TxtResultsThree}

GraphNode == Obj([id |-> Str("n1")])

\* One entry of a query response.
Hit(id, score) == Obj([id |-> Str(id), score |-> Num(score)])

\* JSON.parse(text): the parsed value, or a SyntaxError.
JSONParse(text) ==
    CASE text = TxtNull -> Returned(JNull)
      [] text = TxtEmptyObj -> Returned(EmptyObj)
      [] text = TxtError -> Returned(Obj([error |-> Str("Dimension mismatch")]))
      [] text = TxtErrorEmpty -> Returned(Obj([error |-> Str("")]))
      [] text = TxtNodeNull -> Returned(Obj([node |-> JNull]))
      [] text = TxtNode ->
            Returned(Obj([node |-> GraphNode, edges |-> Arr(<<>>),
                          neighbors |-> Arr(<<>>), rules |-> Arr(<<>>)]))
      [] text = TxtOk -> Returned(Obj([status |-> Str("created")]))
      [] text = TxtStats ->
            Returned(Obj([dimension |-> Num(4), count |-> Num(5),
                          metric |-> Str("cosine")]))
      [] text = TxtResultsEmpty -> Returned(Obj([results |-> Arr(<<>>)]))
      [] text = TxtResultsDescending ->
            Returned(Obj([results |-> Arr(<<Hit("v1", 95), Hit("v2", 82)>>)]))
      [] text = TxtResultsAscending ->
            Returned(Obj([results |-> Arr(<<Hit("v2", 82), Hit("v1", 95)>>)]))
      [] text = TxtResultsThree ->
            Returned(Obj([results |->
                Arr(<<Hit("v1", 95), Hit("v3", 90), Hit("v2", 82)>>)]))
      [] OTHER -> Threw("SyntaxError", "Unexpected token")

\* A content part of a tool result: a type tag and, maybe, a text.
TextPart(text) == [t |-> "part", type |-> "text", text |-> Str(text)]
ImagePart == [t |-> "part", type |-> "image", text |-> Undef]
TextPartNoText == [t |-> "part", type |-> "text", text |-> Undef]

\* result.content of a tool result: missing, or a list of parts.
NoContent == Undef
Contents ==
    {NoContent, Arr(<<>>), Arr(<<ImagePart>>), Arr(<<TextPartNoText>>)}
    \cup {Arr(<<TextPart(x)>>) : x \in Texts}
    \cup {Arr(<<ImagePart, TextPart(x)>>) : x \in {TxtError, TxtNode}}
    \cup {Arr(<<TextPart(TxtOk), TextPart(x)>>) : x \in {TxtError, TxtGarbage}}
    \cup {Arr(<<TextPart(x), TextPart(TxtOk)>>) : x \in {TxtEmpty, TxtGarbage}}

\* content.find((c) => c.type === "text"): the first textual part, or undefined.
RECURSIVE FindText(_)
FindText(parts) ==
    IF parts = <<>> THEN Undef
    ELSE IF Head(parts).type = "text" THEN Head(parts)
    ELSE FindText(Tail(parts))

\* A decoding that rejects a response without a textual part.
DecodeContentStrict(content) ==
    IF content.t = "undefined" \/ Len(content.a) = 0
    THEN Threw("Error", "No content")
    ELSE LET textBlock == FindText(content.a) IN
         IF textBlock.t = "undefined" THEN Threw("Error", "No text content")
         ELSE IF ~Truthy(textBlock.text) THEN Returned(EmptyObj)
         ELSE JSONParse(textBlock.text.s)

\* A decoding that reads the last textual part instead of the first.
DecodeContentLastText(content) ==
    IF content.t = "undefined" \/ Len(content.a) = 0 THEN Returned(EmptyObj)
    ELSE LET textual == {i \in 1..Len(content.a) : content.a[i].type = "text"} IN
         IF textual = {} THEN Returned(EmptyObj)
         ELSE LET textBlock ==
                      content.a[CHOOSE i \in textual : \A j \in textual : j <= i] IN
              IF ~Truthy(textBlock.text) THEN Returned(EmptyObj)
              ELSE JSONParse(textBlock.text.s)

\* The tail of callTool: from result.content to the value callTool returns
\* (or the error JSON.parse throws).
DecodeContent(content) ==
    IF content.t = "undefined" \/ Len(content.a) = 0 THEN Returned(EmptyObj)
    ELSE LET textBlock == FindText(content.a) IN
         IF textBlock.t = "undefined" THEN Returned(EmptyObj)
         ELSE IF ~Truthy(textBlock.text) THEN Returned(EmptyObj)
         ELSE JSONParse(textBlock.text.s)

(***************************************************************************)
(* QortexVector: what each operation makes of the value callTool returned. *)
(***************************************************************************)
StorageOps ==
    {"createIndex", "listIndexes", "describeIndex", "deleteIndex", "upsert",
     "query", "updateVector", "deleteVector", "deleteVectors"}
RetrievalOps == {"textQuery", "explore", "getRules", "feedback"}
AdapterOps == StorageOps \cup RetrievalOps

\* Reading a property of null or undefined throws a TypeError.
OnObject(result, body) ==
    IF result.t = "object" THEN body
    ELSE Threw("TypeError", "Cannot read properties of null")

\* if (result.error) throw new Error(result.error); otherwise ret.
ThrowIfError(result, ret) ==
    OnObject(result,
        IF Truthy(Get(result, "error"))
        THEN Threw("Error", Get(result, "error").s)
        ELSE Returned(ret))

createIndex(result) == ThrowIfError(result, Undef)

listIndexes(result) == OnObject(result, Returned(Get(result, "indexes")))

\* A describeIndex that answers from what it remembers of an empty index.
describeIndexStale(result) ==
    ThrowIfError(result,
        Obj([dimension |-> Get(result, "dimension"),
             count |-> Num(0),
             metric |-> Get(result, "metric")]))

describeIndex(result) ==
    ThrowIfError(result,
        Obj([dimension |-> Get(result, "dimension"),
             count |-> Get(result, "count"),
             metric |-> Get(result, "metric")]))

deleteIndex(result) == ThrowIfError(result, Undef)

upsert(result) == ThrowIfError(result, Get(result, "ids"))

\* The entries of a in descending order of their score.
SortByScore(a) ==
    LET n == Len(a)
        p == CHOOSE q \in [1..n -> 1..n] :
                 /\ \A i, j \in 1..n : i # j => q[i] # q[j]
                 /\ \A i \in 1..(n - 1) : a[q[i]].f.score.n >= a[q[i + 1]].f.score.n
    IN [i \in 1..n |-> a[p[i]]]

\* A query that sorts what the remote returned.
queryResorted(result) ==
    ThrowIfError(result,
        Arr(SortByScore(Coalesce(Get(result, "results"), Arr(<<>>)).a)))

query(result) == ThrowIfError(result, Coalesce(Get(result, "results"), Arr(<<>>)))

updateVector(result) == ThrowIfError(result, Undef)

deleteVector(result) == ThrowIfError(result, Undef)

deleteVectors(result) == ThrowIfError(result, Undef)

textQuery(result) == Returned(result)

explore(result) ==
    OnObject(result,
        IF Get(result, "node") = JNull THEN Returned(JNull) ELSE Returned(result))

getRules(result) == Returned(result)

feedback(result) == Returned(result)

\* The operation o applied to what callTool gave it: a failure of callTool
\* passes through unchanged.
OpOutcome(o, r) ==
    IF r.status = "threw" THEN r
    ELSE CASE o = "createIndex" -> createIndex(r.value)
           [] o = "listIndexes" -> listIndexes(r.value)
           [] o = "describeIndex" -> describeIndex(r.value)
           [] o = "deleteIndex" -> deleteIndex(r.value)
           [] o = "upsert" -> upsert(r.value)
           [] o = "query" -> query(r.value)
           [] o = "updateVector" -> updateVector(r.value)
           [] o = "deleteVector" -> deleteVector(r.value)
           [] o = "deleteVectors" -> deleteVectors(r.value)
           [] o = "textQuery" -> textQuery(r.value)
           [] o = "explore" -> explore(r.value)
           [] o = "getRules" -> getRules(r.value)
           [] o = "feedback" -> feedback(r.value)
           [] OTHER -> r

(***************************************************************************)
(* QortexVector: the request each operation hands to callTool. An object   *)
(* literal keeps every key it names, also when the value is undefined.     *)
(***************************************************************************)
DefaultMetric == "cosine"
DefaultTopK == 10
DefaultIncludeVector == FALSE
DefaultTextTopK == 20
DefaultMinConfidence == 0
DefaultMode == "auto"
DefaultDepth == 1
DefaultIncludeDerived == TRUE
DefaultSource == "mastra"

\* createIndex with a metric that is sent as the caller left it.
createIndexArgsNoDefault(p) ==
    Obj([index_name |-> p.indexName, dimension |-> p.dimension,
         metric |-> p.metric])

createIndexArgs(p) ==
    Obj([index_name |-> p.indexName, dimension |-> p.dimension,
         metric |-> Default(p.metric, Str(DefaultMetric))])

listIndexesArgs(p) == EmptyObj

describeIndexArgs(p) == Obj([index_name |-> p.indexName])

deleteIndexArgs(p) == Obj([index_name |-> p.indexName])

upsertArgs(p) ==
    Obj([index_name |-> p.indexName, vectors |-> p.vectors,
         metadata |-> Coalesce(p.metadata, Undef),
         ids |-> Coalesce(p.ids, Undef)])

\* query that always asks for the default number of results.
queryArgsFixedTopK(p) ==
    Obj([index_name |-> p.indexName, query_vector |-> p.queryVector,
         top_k |-> Num(DefaultTopK),
         filter |-> Coalesce(p.filter, Undef),
         include_vector |-> Default(p.includeVector, Bool(DefaultIncludeVector))])

queryArgs(p) ==
    Obj([index_name |-> p.indexName, query_vector |-> p.queryVector,
         top_k |-> Default(p.topK, Num(DefaultTopK)),
         filter |-> Coalesce(p.filter, Undef),
         include_vector |-> Default(p.includeVector, Bool(DefaultIncludeVector))])

updateVectorArgs(p) ==
    Obj([index_name |-> p.indexName,
         id |-> Coalesce(p.id, Undef),
         filter |-> Coalesce(p.filter, Undef),
         vector |-> Coalesce(p.update.vector, Undef),
         metadata |-> Coalesce(p.update.metadata, Undef)])

deleteVectorArgs(p) == Obj([index_name |-> p.indexName, id |-> p.id])

\* An object without the keys whose value is undefined.
Compact(o) ==
    Obj([k \in {j \in DOMAIN o.f : o.f[j].t # "undefined"} |-> o.f[k]])

\* deleteVectors that leaves out what the caller left unset.
deleteVectorsArgsCompact(p) ==
    Compact(Obj([index_name |-> p.indexName,
                 ids |-> Coalesce(p.ids, Undef),
                 filter |-> Coalesce(p.filter, Undef)]))

deleteVectorsArgs(p) ==
    Obj([index_name |-> p.indexName,
         ids |-> Coalesce(p.ids, Undef),
         filter |-> Coalesce(p.filter, Undef)])

textQueryArgs(p) ==
    Obj([context |-> p.context,
         domains |-> Coalesce(p.options.domains, Undef),
         top_k |-> Coalesce(p.options.topK, Num(DefaultTextTopK)),
         min_confidence |-> Coalesce(p.options.minConfidence, Num(DefaultMinConfidence)),
         mode |-> Coalesce(p.options.mode, Str(DefaultMode))])

exploreArgs(p) ==
    Obj([node_id |-> p.nodeId, depth |-> Default(p.depth, Num(DefaultDepth))])

getRulesArgs(p) ==
    Obj([domains |-> Coalesce(p.options.domains, Undef),
         concept_ids |-> Coalesce(p.options.conceptIds, Undef),
         categories |-> Coalesce(p.options.categories, Undef),
         include_derived |-> Coalesce(p.options.includeDerived, Bool(DefaultIncludeDerived)),
         min_confidence |-> Coalesce(p.options.minConfidence, Num(DefaultMinConfidence))])

feedbackArgs(p) ==
    Obj([query_id |-> p.queryId, outcomes |-> p.outcomes,
         source |-> Default(p.source, Str(DefaultSource))])

\* A naming in which deleteVectors calls the method of deleteVector.
ToolNameShared(o) ==
    CASE o = "createIndex" -> "qortex_vector_create_index"
      [] o = "listIndexes" -> "qortex_vector_list_indexes"
      [] o = "describeIndex" -> "qortex_vector_describe_index"
      [] o = "deleteIndex" -> "qortex_vector_delete_index"
      [] o = "upsert" -> "qortex_vector_upsert"
      [] o = "query" -> "qortex_vector_query"
      [] o = "updateVector" -> "qortex_vector_update"
      [] o \in {"deleteVector", "deleteVectors"} -> "qortex_vector_delete"
      [] o = "textQuery" -> "qortex_query"
      [] o = "explore" -> "qortex_explore"
      [] o = "getRules" -> "qortex_rules"
      [] o = "feedback" -> "qortex_feedback"

\* The remote method each operation names.
ToolName(o) ==
    CASE o = "createIndex" -> "qortex_vector_create_index"
      [] o = "listIndexes" -> "qortex_vector_list_indexes"
      [] o = "describeIndex" -> "qortex_vector_describe_index"
      [] o = "deleteIndex" -> "qortex_vector_delete_index"
      [] o = "upsert" -> "qortex_vector_upsert"
      [] o = "query" -> "qortex_vector_query"
      [] o = "updateVector" -> "qortex_vector_update"
      [] o = "deleteVector" -> "qortex_vector_delete"
      [] o = "deleteVectors" -> "qortex_vector_delete_many"
      [] o = "textQuery" -> "qortex_query"
      [] o = "explore" -> "qortex_explore"
      [] o = "getRules" -> "qortex_rules"
      [] o = "feedback" -> "qortex_feedback"

\* The arguments operation o builds from its parameters p.
Arguments(o, p) ==
    CASE o = "createIndex" -> createIndexArgs(p)
      [] o = "listIndexes" -> listIndexesArgs(p)
      [] o = "describeIndex" -> describeIndexArgs(p)
      [] o = "deleteIndex" -> deleteIndexArgs(p)
      [] o = "upsert" -> upsertArgs(p)
      [] o = "query" -> queryArgs(p)
      [] o = "updateVector" -> updateVectorArgs(p)
      [] o = "deleteVector" -> deleteVectorArgs(p)
      [] o = "deleteVectors" -> deleteVectorsArgs(p)
      [] o = "textQuery" -> textQueryArgs(p)
      [] o = "explore" -> exploreArgs(p)
      [] o = "getRules" -> getRulesArgs(p)
      [] o = "feedback" -> feedbackArgs(p)

\* What callTool passes to this.client.callTool: for an adapter operation
\* its method name and arguments, for a direct callTool(name, args) the
\* caller's own.
Request(o, p) ==
    IF o \in AdapterOps
    THEN [name |-> ToolName(o), arguments |-> Arguments(o, p)]
    ELSE [name |-> p.name, arguments |-> p.args]

(***************************************************************************)
(* The parameters callers pass. A field the caller leaves out reads as     *)
(* undefined.                                                              *)
(***************************************************************************)
NoInput == [none |-> TRUE]
IndexName == Str("docs")
SomeVector == Arr(<<Num(1), Num(0)>>)
SomeIds == Arr(<<Str("v1")>>)
SomeFilter == Obj([source |-> Str("handbook")])
SomeMetadata == Obj([source |-> Str("notes")])
SomeDomains == Arr(<<Str("security")>>)
EmptyArr == Arr(<<>>)

Metrics == {Str("cosine"), Str("euclidean"), Str("dotproduct")}
TopKs == {Num(1), Num(2)}
Depths == {Num(n) : n \in 0..4}

\* The calls of each operation the model makes.
Inputs(o) ==
    CASE o = "createIndex" ->
            [indexName : {IndexName}, dimension : {Num(2)},
             metric : {Undef} \cup Metrics]
      [] o \in {"describeIndex", "deleteIndex"} -> [indexName : {IndexName}]
      [] o = "upsert" ->
            [indexName : {IndexName}, vectors : {Arr(<<SomeVector>>)},
             metadata : {Undef, JNull, EmptyArr, Arr(<<SomeMetadata>>)},
             ids : {Undef, EmptyArr, SomeIds}]
      [] o = "query" ->
            [indexName : {IndexName}, queryVector : {SomeVector},
             topK : {Undef} \cup TopKs,
             filter : {Undef, JNull, EmptyObj, SomeFilter},
             includeVector : {Undef, Bool(TRUE), Bool(FALSE)}]
      [] o = "updateVector" ->
            [indexName : {IndexName},
             id : {Undef, Str(""), Str("v1")},
             filter : {Undef, EmptyObj, SomeFilter},
             update : [vector : {Undef, SomeVector},
                       metadata : {Undef, EmptyObj}]]
      [] o = "deleteVector" -> [indexName : {IndexName}, id : {Str("v1")}]
      [] o = "deleteVectors" ->
            [indexName : {IndexName},
             ids : {Undef, EmptyArr, SomeIds},
             filter : {Undef, EmptyObj, SomeFilter}]
      [] o = "textQuery" ->
            [context : {Str("auth")},
             options : [domains : {Undef, EmptyArr, SomeDomains},
                        topK : {Undef, Num(5)},
                        minConfidence : {Undef, Num(0)},
                        mode : {Undef, Str("vec")}]]
      [] o = "explore" -> [nodeId : {Str("n1")}, depth : {Undef} \cup Depths]
      [] o = "getRules" ->
            [options : [domains : {Undef, EmptyArr, SomeDomains},
                        conceptIds : {Undef, EmptyArr},
                        categories : {Undef, EmptyArr},
                        includeDerived : {Undef, Bool(FALSE)},
                        minConfidence : {Undef}]]
      [] o = "feedback" ->
            [queryId : {Str("q1")},
             outcomes : {Obj([c1 |-> Str("accepted")])},
             source : {Undef, Str("cli")}]
      [] o = "callTool" ->
            [name : {"qortex_vector_list_indexes"}, args : {EmptyObj}]
      [] OTHER -> {NoInput}

(***************************************************************************)
(* QortexMcpClient: state.                                                 *)
(***************************************************************************)
VARIABLES
    config,      \* config.mcpClient: Null, or the pre-supplied client
    client,      \* this.client: Null or a handle
    transport,   \* this.transport: Null or a spawned connection
    connected,   \* this._connected
    created,     \* how many transports connect() has created (processes spawned)
    chan,        \* per handle: "none", "open" or "closed" (channel and process)
    closeCalls,  \* per handle: how often this component called close() on it
    pc,          \* per task: where its current call stands
    op,          \* per task: the call it is in ("none" when idle)
    conn,        \* per task: the connection whose handshake its connect()
                 \*   awaits, or whose close() its disconnect() awaits
    input,       \* per task: the parameters of its call
    sent,        \* per task: the requests its call has handed to a client
    req,         \* per task: the client its request is in flight on
    response,    \* per task: the content its request was answered with
    result,      \* per task: what callTool gave the operation
    outcome,     \* per task: what the operation gave its caller
    racedDisconnect, \* per task: disconnect() was called while its request
                     \*   was in flight
    failedOn     \* per task: the client its previous call was answered on,
                 \*   when that call failed on the payload; Null otherwise

vars ==
    <<config, client, transport, connected, created, chan, closeCalls,
      pc, op, input, sent, conn, req, response, result, outcome,
      racedDisconnect, failedOn>>

\* The call failed on what the remote answered: an error field raised by the
\* operation, or a text that JSON.parse rejected.
PayloadFailure(r) == r.status = "threw" /\ r.kind \in {"Error", "SyntaxError"}

\* No content received (yet).
NoResponse == [t |-> "none"]

clientVars == <<client, transport, connected, created, chan, closeCalls>>

\* The constructor (with or without config.mcpClient), all tasks idle.
Init ==
    /\ config \in {[mcpClient |-> Null], [mcpClient |-> SuppliedClient]}
    /\ client = config.mcpClient
    /\ transport = Null
    /\ connected = (config.mcpClient # Null)
    /\ created = 0
    /\ chan = [h \in Handles |->
                 IF h = SuppliedClient /\ config.mcpClient # Null
                 THEN "open" ELSE "none"]
    /\ closeCalls = [h \in Handles |-> 0]
    /\ pc = [t \in Tasks |-> "idle"]
    /\ op = [t \in Tasks |-> "none"]
    /\ conn = [t \in Tasks |-> Null]
    /\ req = [t \in Tasks |-> Null]
    /\ input = [t \in Tasks |-> NoInput]
    /\ sent = [t \in Tasks |-> <<>>]
    /\ response = [t \in Tasks |-> NoResponse]
    /\ result = [t \in Tasks |-> NoOutcome]
    /\ outcome = [t \in Tasks |-> NoOutcome]
    /\ racedDisconnect = [t \in Tasks |-> FALSE]
    /\ failedOn = [t \in Tasks |-> Null]

\* A connect() that lost its guard.
AlreadyConnectedUnchecked == FALSE

\* connect(): if (this._connected) return;
AlreadyConnected == connected

\* connect() up to its await: a new transport and a new client replace the
\* current ones, and client.connect(transport) spawns the process and starts
\* the handshake.
ConnectStart(t) ==
    /\ created < MaxConn
    /\ created' = created + 1
    /\ transport' = created + 1
    /\ client' = created + 1
    /\ chan' = [chan EXCEPT ![created + 1] = "open"]
    /\ conn' = [conn EXCEPT ![t] = created + 1]
    /\ pc' = [pc EXCEPT ![t] = "connect_await"]
    /\ UNCHANGED <<connected, closeCalls>>

\* A callTool that hands its request to the client a second time.
TransmitWithRetry(log, r) == Append(Append(log, r), r)

\* One this.client.callTool({name, arguments}): one request.
Transmit(log, r) == Append(log, r)

\* The call of this.client!.callTool(...) for operation o with parameters p:
\* a TypeError when this.client is null, otherwise the request is in flight
\* on the current client.
SendRequest(t, o, p) ==
    IF client = Null
    THEN /\ pc' = [pc EXCEPT ![t] = "done"]
         /\ outcome' = [outcome EXCEPT ![t] =
                Threw("TypeError", "Cannot read properties of null")]
         /\ UNCHANGED <<req, sent>>
    ELSE /\ pc' = [pc EXCEPT ![t] = "call_await"]
         /\ req' = [req EXCEPT ![t] = client]
         /\ sent' = [sent EXCEPT ![t] = Transmit(@, Request(o, p))]
         /\ UNCHANGED outcome

\* A task calls connect().
Connect(t) ==
    /\ pc[t] = "idle"
    /\ op' = [op EXCEPT ![t] = "connect"]
    /\ IF AlreadyConnected
       THEN /\ pc' = [pc EXCEPT ![t] = "done"]
            /\ outcome' = [outcome EXCEPT ![t] = Returned(Undef)]
            /\ UNCHANGED <<clientVars, conn>>
       ELSE /\ ConnectStart(t)
            /\ UNCHANGED outcome
    /\ UNCHANGED <<failedOn, config, input, sent, req, response, result, racedDisconnect>>

\* A callTool that never connects by itself.
NeedsConnectNever == FALSE

\* A callTool that connects anew for every request.
NeedsConnectAlways == TRUE

\* callTool(): if (!this._connected) await this.connect();
NeedsConnect == ~connected

\* A task calls callTool (directly, or through the adapter operation o) with
\* parameters p: connect first when not connected, send at once otherwise.
CallTool(t, o, p) ==
    /\ pc[t] = "idle"
    /\ op' = [op EXCEPT ![t] = o]
    /\ input' = [input EXCEPT ![t] = p]
    /\ IF NeedsConnect
       THEN /\ ConnectStart(t)
            /\ UNCHANGED <<req, sent, outcome>>
       ELSE /\ SendRequest(t, o, p)
            /\ UNCHANGED <<clientVars, conn>>
    /\ UNCHANGED <<failedOn, config, response, result, racedDisconnect>>

\* await this.client.connect(this.transport) resolves: the handshake was
\* accepted on a channel that is still open. connect() sets the flag; inside
\* callTool the request is then sent on whatever this.client is now.
ConnectOk(t) ==
    /\ pc[t] = "connect_await"
    /\ chan[conn[t]] = "open"
    /\ connected' = TRUE
    /\ conn' = [conn EXCEPT ![t] = Null]
    /\ IF op[t] = "connect"
       THEN /\ pc' = [pc EXCEPT ![t] = "done"]
            /\ outcome' = [outcome EXCEPT ![t] = Returned(Undef)]
            /\ UNCHANGED <<req, sent>>
       ELSE SendRequest(t, op[t], input[t])
    /\ UNCHANGED <<failedOn, config, client, transport, created, chan, closeCalls,
                   op, input, response, result, racedDisconnect>>

\* await this.client.connect(this.transport) rejects: the process did not
\* spawn, the handshake was rejected, or the channel was closed meanwhile.
\* The SDK has closed the channel; connect() changes no field and the
\* failure propagates to the caller.
ConnectFail(t) ==
    /\ pc[t] = "connect_await"
    /\ chan' = [chan EXCEPT ![conn[t]] = "closed"]
    /\ pc' = [pc EXCEPT ![t] = "done"]
    /\ outcome' = [outcome EXCEPT ![t] = Threw("TransportError", "connect failed")]
    /\ conn' = [conn EXCEPT ![t] = Null]
    /\ UNCHANGED <<failedOn, config, client, transport, connected, created, closeCalls,
                   op, input, sent, req, response, result, racedDisconnect>>

\* A disconnect() that closes the client's channel when it has no transport.
CloseTargetOrClient == IF transport # Null THEN transport ELSE client

\* disconnect(): what `if (this.transport) await this.transport.close()` closes.
CloseTarget == transport

\* A disconnect() that forgets to reset this.transport.
TransportAfterCloseKept == transport

\* disconnect(): this.transport after the close has been awaited.
TransportAfterClose == Null

\* A task calls disconnect(). With a transport: close() is called on it and
\* awaited. Without one there is no await: client and flag are reset at once.
Disconnect(t) ==
    /\ pc[t] = "idle"
    /\ op' = [op EXCEPT ![t] = "disconnect"]
    /\ racedDisconnect' =
           [u \in Tasks |-> racedDisconnect[u] \/ pc[u] = "call_await"]
    /\ IF CloseTarget # Null
       THEN /\ closeCalls' = [closeCalls EXCEPT ![CloseTarget] = @ + 1]
            /\ chan' = [chan EXCEPT ![CloseTarget] = "closed"]
            /\ conn' = [conn EXCEPT ![t] = CloseTarget]
            /\ pc' = [pc EXCEPT ![t] = "disconnect_await"]
            /\ UNCHANGED <<client, transport, connected, outcome>>
       ELSE /\ client' = Null
            /\ connected' = FALSE
            /\ pc' = [pc EXCEPT ![t] = "done"]
            /\ outcome' = [outcome EXCEPT ![t] = Returned(Undef)]
            /\ UNCHANGED <<transport, chan, closeCalls, conn>>
    /\ UNCHANGED <<failedOn, config, created, input, sent, req, response, result>>

\* await this.transport.close() resolves: the three fields are reset.
DisconnectDone(t) ==
    /\ pc[t] = "disconnect_await"
    /\ transport' = TransportAfterClose
    /\ client' = Null
    /\ connected' = FALSE
    /\ pc' = [pc EXCEPT ![t] = "done"]
    /\ outcome' = [outcome EXCEPT ![t] = Returned(Undef)]
    /\ conn' = [conn EXCEPT ![t] = Null]
    /\ UNCHANGED <<failedOn, config, created, chan, closeCalls, op, input, sent, req,
                   response, result, racedDisconnect>>

\* The remote answers a request in flight on an open channel with content c:
\* callTool decodes it and the operation makes its result of it.
Respond(t, c) ==
    /\ pc[t] = "call_await"
    /\ chan[req[t]] = "open"
    /\ response' = [response EXCEPT ![t] = c]
    /\ result' = [result EXCEPT ![t] = DecodeContent(c)]
    /\ outcome' = [outcome EXCEPT ![t] = OpOutcome(op[t], DecodeContent(c))]
    /\ pc' = [pc EXCEPT ![t] = "done"]
    /\ req' = [req EXCEPT ![t] = Null]
    /\ UNCHANGED <<failedOn, config, clientVars, op, input, sent, conn, racedDisconnect>>

\* A request in flight on a closed channel fails: the SDK rejects it.
RequestFails(t) ==
    /\ pc[t] = "call_await"
    /\ chan[req[t]] = "closed"
    /\ result' = [result EXCEPT ![t] = Threw("TransportError", "Connection closed")]
    /\ outcome' = [outcome EXCEPT ![t] = Threw("TransportError", "Connection closed")]
    /\ pc' = [pc EXCEPT ![t] = "done"]
    /\ req' = [req EXCEPT ![t] = Null]
    /\ UNCHANGED <<failedOn, config, clientVars, op, input, sent, conn, response,
                   racedDisconnect>>

\* A spawned process exits on its own; the client installs no handler for it.
ProcessExit(i) ==
    /\ chan[i] = "open"
    /\ chan' = [chan EXCEPT ![i] = "closed"]
    /\ UNCHANGED <<failedOn, config, client, transport, connected, created, closeCalls,
                   pc, op, input, sent, conn, req, response, result, outcome,
                   racedDisconnect>>

\* The caller has its answer; the task is free for its next call.
Return(t) ==
    /\ pc[t] = "done"
    /\ pc' = [pc EXCEPT ![t] = "idle"]
    /\ op' = [op EXCEPT ![t] = "none"]
    /\ conn' = [conn EXCEPT ![t] = Null]
    /\ req' = [req EXCEPT ![t] = Null]
    /\ input' = [input EXCEPT ![t] = NoInput]
    /\ sent' = [sent EXCEPT ![t] = <<>>]
    /\ response' = [response EXCEPT ![t] = NoResponse]
    /\ result' = [result EXCEPT ![t] = NoOutcome]
    /\ outcome' = [outcome EXCEPT ![t] = NoOutcome]
    /\ racedDisconnect' = [racedDisconnect EXCEPT ![t] = FALSE]
    /\ failedOn' = [failedOn EXCEPT ![t] =
           IF PayloadFailure(outcome[t]) THEN client ELSE Null]
    /\ UNCHANGED <<config, clientVars>>

\* What the remote answers a plain callTool in the lifecycle specification.
OkContent == Arr(<<TextPart(TxtOk)>>)

\* Concurrent callers of one QortexMcpClient.
Next ==
    \/ \E t \in Tasks : Connect(t)
    \/ \E t \in Tasks : \E p \in Inputs("callTool") : CallTool(t, "callTool", p)
    \/ \E t \in Tasks : ConnectOk(t)
    \/ \E t \in Tasks : ConnectFail(t)
    \/ \E t \in Tasks : Disconnect(t)
    \/ \E t \in Tasks : DisconnectDone(t)
    \/ \E t \in Tasks : Respond(t, OkContent)
    \/ \E t \in Tasks : RequestFails(t)
    \/ \E i \in Conns : ProcessExit(i)
    \/ \E t \in Tasks : Return(t)

Spec == Init /\ [][Next]_vars

\* One caller of a QortexVector, every operation, every response content.
Caller == CHOOSE t \in Tasks : \A u \in Tasks : t <= u

NextOps ==
    \/ Connect(Caller)
    \/ \E o \in AdapterOps : \E p \in Inputs(o) : CallTool(Caller, o, p)
    \/ ConnectOk(Caller)
    \/ ConnectFail(Caller)
    \/ Disconnect(Caller)
    \/ DisconnectDone(Caller)
    \/ \E c \in Contents : Respond(Caller, c)
    \/ RequestFails(Caller)
    \/ \E i \in Conns : ProcessExit(i)
    \/ Return(Caller)

SpecOps == Init /\ [][NextOps]_vars

(***************************************************************************)
(* Claims.                                                                 *)
(***************************************************************************)

\* C1: on a client built without a pre-supplied client, as long as no
\* channel has been closed (no disconnect, no failed connect, no exit),
\* every connect() and callTool() shares one construction: at most one
\* transport has been created and one process spawned.
C1_SpawnOnce ==
    (config.mcpClient = Null /\ \A i \in Conns : chan[i] # "closed")
        => created <= 1

\* C2: a callTool request that was in flight when disconnect() was called
\* completes with a failure, never with a result.
C2_RacedCallsFail ==
    \A t \in Tasks :
        (pc[t] = "done" /\ racedDisconnect[t]) => outcome[t].status = "threw"

\* callTool returned a payload that carries a (non-empty) error string.
CarriesError(r) ==
    /\ r.status = "returned"
    /\ r.value.t = "object"
    /\ Get(r.value, "error").t = "string"
    /\ Get(r.value, "error").s # ""

\* C3: a storage operation whose decoded payload carries an error string
\* fails with a failure whose message is exactly that string.
C3_StorageErrorRaised ==
    \A t \in Tasks :
        (pc[t] = "done" /\ op[t] \in StorageOps /\ CarriesError(result[t]))
            => outcome[t] = Threw("Error", Get(result[t].value, "error").s)

\* C4: feedback, textQuery, explore and getRules fail to their caller when
\* the decoded payload carries an error field.
C4_RetrievalErrorRaised ==
    \A t \in Tasks :
        (pc[t] = "done" /\ op[t] \in RetrievalOps /\ CarriesError(result[t]))
            => outcome[t].status = "threw"

\* C5: explore returns null, or an object whose node is a non-null graph
\* node; never a non-null object whose node is missing.
C5_ExploreNodeOrNull ==
    \A t \in Tasks :
        (pc[t] = "done" /\ op[t] = "explore" /\ outcome[t].status = "returned")
            => \/ outcome[t].value = JNull
               \/ /\ outcome[t].value.t = "object"
                  /\ Get(outcome[t].value, "node").t = "object"

\* C6: an adapter built around a pre-supplied client never creates a
\* transport (never spawns a process, never uses the spawn configuration).
C6_SuppliedNeverSpawns == config.mcpClient # Null => created = 0

\* C7: disconnect() never closes the pre-supplied client's channel: close()
\* is only ever called on a transport that connect() created itself.
C7_SuppliedNeverClosed ==
    /\ config.mcpClient # Null =>
          (closeCalls[SuppliedClient] = 0 /\ chan[SuppliedClient] = "open")
    /\ \A h \in Handles : closeCalls[h] > 0 => h \in 1..created

\* C7 witness: on an adapter built around a supplied client a disconnect()
\* has completed, and another one has closed a transport the adapter
\* spawned itself.
C7_Witness ==
    /\ config.mcpClient # Null
    /\ \E t \in Tasks : pc[t] = "done" /\ op[t] = "disconnect"
    /\ \E i \in Conns : closeCalls[i] > 0

\* C8: when connect() fails, the client is left disconnected: the flag is
\* false and neither this.transport nor this.client is the failed attempt.
C8_FailedConnectLeavesDisconnected ==
    [][\A t \in Tasks :
          (/\ pc[t] = "connect_await"
           /\ pc'[t] = "done"
           /\ outcome'[t] = Threw("TransportError", "connect failed"))
          => (/\ ~connected'
              /\ transport' # conn[t]
              /\ client' # conn[t])]_vars

\* C9: connect() called while connected is a no-op: no transport is created,
\* no process spawned, and flag, client and transport stay as they are; the
\* call returns at once.
C9_ConnectWhenConnectedIsNoop ==
    [][\A t \in Tasks :
          (pc[t] = "idle" /\ op'[t] = "connect" /\ connected)
          => (/\ UNCHANGED clientVars
              /\ pc'[t] = "done"
              /\ outcome'[t] = Returned(Undef))]_vars

\* C9 witness: a connect() has returned on a connected client (the supplied
\* one) and nothing was ever spawned.
C9_Witness ==
    /\ config.mcpClient # Null
    /\ connected
    /\ client = SuppliedClient
    /\ created = 0
    /\ \E t \in Tasks :
          pc[t] = "done" /\ op[t] = "connect" /\ outcome[t] = Returned(Undef)

\* C10: disconnect() is idempotent. Called on a disconnected client (no
\* transport, no client, flag false) it closes nothing, changes nothing and
\* returns at once; a disconnect() that starts while no other one is in
\* progress never calls close() on a transport that was closed before; and
\* every disconnect() ends in the same disconnected state.
C10_DisconnectIdempotent ==
    [][\A t \in Tasks :
          /\ (pc[t] = "idle" /\ op'[t] = "disconnect")
             => /\ (transport = Null /\ client = Null /\ ~connected)
                   => (/\ UNCHANGED clientVars
                       /\ pc'[t] = "done")
                /\ (transport # Null /\ \A u \in Tasks : pc[u] # "disconnect_await")
                   => closeCalls[transport] = 0
          /\ (pc[t] # "done" /\ pc'[t] = "done" /\ op'[t] = "disconnect")
             => (transport' = Null /\ client' = Null /\ ~connected')]_vars

\* C10 witness: two disconnect() calls have completed, the client is
\* disconnected, and close() was called exactly once, on the one transport
\* that was ever created.
C10_Witness ==
    /\ \A t \in Tasks : pc[t] = "done" /\ op[t] = "disconnect"
    /\ transport = Null /\ client = Null /\ ~connected
    /\ created = 1
    /\ closeCalls[1] = 1

\* The calls that go through callTool: the thirteen operations and a direct
\* callTool.
IsCall(o) == o \in AdapterOps \cup {"callTool"}

\* C11: a callTool issued while not connected starts connect() (it creates a
\* transport and awaits the handshake) and has sent nothing yet; a request is
\* handed to a client only in a step that leaves the client connected; and
\* when the connect() inside a callTool fails, the call ends there with that
\* transport failure and no request sent.
C11_LazyConnectBeforeSend ==
    [][\A t \in Tasks :
          /\ (pc[t] = "idle" /\ IsCall(op'[t]) /\ ~connected)
             => /\ pc'[t] = "connect_await"
                /\ created' = created + 1
                /\ sent'[t] = <<>>
          /\ (sent'[t] # sent[t] /\ sent'[t] # <<>>) => connected'
          /\ (/\ pc[t] = "connect_await" /\ IsCall(op[t])
              /\ pc'[t] # "connect_await"
              /\ chan'[conn[t]] = "closed")
             => /\ pc'[t] = "done"
                /\ outcome'[t] = Threw("TransportError", "connect failed")
                /\ sent'[t] = <<>>
                /\ \A u \in Tasks : sent'[u] = sent[u]]_vars

\* C11 witness: a callTool ended with the failure of its connect() and sent
\* no request.
C11_Witness ==
    \E t \in Tasks :
        /\ pc[t] = "done" /\ op[t] = "callTool"
        /\ outcome[t] = Threw("TransportError", "connect failed")
        /\ sent[t] = <<>>
        /\ ~connected

\* C12: with one caller, every completed adapter operation has handed
\* exactly one request to the client, whatever its outcome (a result, a
\* remote error, a decoding failure, a closed channel); the one exception is
\* an operation whose own lazy connect() failed, which sent none. No
\* operation ever has two requests.
C12_OneRequestPerCall ==
    \A t \in Tasks :
        (op[t] \in AdapterOps)
            => /\ Len(sent[t]) <= 1
               /\ pc[t] = "call_await" => Len(sent[t]) = 1
               /\ pc[t] = "done"
                  => (Len(sent[t]) = 0
                        <=> outcome[t] = Threw("TransportError", "connect failed"))

\* C12 witness: an operation has failed on a remote error after its one
\* request.
C12_Witness ==
    \E t \in Tasks :
        /\ pc[t] = "done" /\ op[t] = "upsert"
        /\ outcome[t] = Threw("Error", "Dimension mismatch")
        /\ Len(sent[t]) = 1

\* The content has a part tagged as text.
HasTextPart(content) ==
    /\ content.t = "array"
    /\ \E i \in 1..Len(content.a) : content.a[i].type = "text"

\* C13: callTool answered with a content that has no textual part (missing
\* content, an empty list, only other parts) returns the empty mapping.
C13_NoTextIsEmptyResult ==
    \A t \in Tasks :
        (pc[t] = "done" /\ response[t] # NoResponse /\ ~HasTextPart(response[t]))
            => result[t] = Returned(EmptyObj)

\* C13 witness: a call was answered with an image part only and callTool
\* returned the empty mapping.
C13_Witness ==
    \E t \in Tasks :
        /\ pc[t] = "done"
        /\ response[t] = Arr(<<ImagePart>>)
        /\ result[t] = Returned(EmptyObj)

\* The first part of the content that is tagged as text (the content has one).
FirstTextPart(content) ==
    content.a[CHOOSE i \in 1..Len(content.a) :
                 /\ content.a[i].type = "text"
                 /\ \A j \in 1..(i - 1) : content.a[j].type # "text"]

\* The first textual part carries a text (a string) that JSON.parse rejects.
FirstTextUnparseable(content) ==
    /\ HasTextPart(content)
    /\ FirstTextPart(content).text.t = "string"
    /\ JSONParse(FirstTextPart(content).text.s).status = "threw"

\* The first textual part carries a text that JSON.parse accepts.
FirstTextParseable(content) ==
    /\ HasTextPart(content)
    /\ FirstTextPart(content).text.t = "string"
    /\ JSONParse(FirstTextPart(content).text.s).status = "returned"

\* C14: whenever the first textual part of the response carries a text that
\* cannot be parsed as JSON, the empty text included, callTool fails, and
\* the call has sent its one request only.
C14_UnparseableTextFails ==
    \A t \in Tasks :
        (pc[t] = "done" /\ response[t] # NoResponse
            /\ FirstTextUnparseable(response[t]))
            => (result[t].status = "threw" /\ Len(sent[t]) = 1)

\* C15: when the first textual part of the response carries parseable text,
\* callTool returns exactly the value parsed from it, whatever parts stand
\* before or after it, and also when that value has an error field.
C15_ReturnsFirstTextParsed ==
    \A t \in Tasks :
        (pc[t] = "done" /\ response[t] # NoResponse
            /\ FirstTextParseable(response[t]))
            => /\ result[t] = JSONParse(FirstTextPart(response[t]).text.s)
               /\ result[t].status = "returned"

\* C15 witness: the response had an image part, then the text of an error
\* payload; callTool returned the payload with its error field.
C15_Witness ==
    \E t \in Tasks :
        /\ pc[t] = "done"
        /\ response[t] = Arr(<<ImagePart, TextPart(TxtError)>>)
        /\ result[t] = Returned(Obj([error |-> Str("Dimension mismatch")]))

\* C15 witness of the later parts: a second textual part was ignored.
C15_WitnessLaterPart ==
    \E t \in Tasks :
        /\ pc[t] = "done"
        /\ response[t] = Arr(<<TextPart(TxtOk), TextPart(TxtError)>>)
        /\ result[t] = Returned(Obj([status |-> Str("created")]))

\* What the remote put into the results field of its answer: undefined when
\* the answer has no parseable payload or the payload has no such field.
RemoteResults(content) ==
    IF FirstTextParseable(content)
          /\ JSONParse(FirstTextPart(content).text.s).value.t = "object"
    THEN Get(JSONParse(FirstTextPart(content).text.s).value, "results")
    ELSE Undef

\* C16: the sequence query returns has the elements of the remote's results
\* in the remote's order, and is empty when the remote returned none.
C16_QueryKeepsRemoteOrder ==
    \A t \in Tasks :
        (pc[t] = "done" /\ op[t] = "query" /\ outcome[t].status = "returned")
            => LET remote == RemoteResults(response[t])
                   got == outcome[t].value
               IN /\ got.t = "array"
                  /\ IF remote.t = "array"
                     THEN /\ Len(got.a) = Len(remote.a)
                          /\ \A i \in 1..Len(remote.a) : got.a[i] = remote.a[i]
                     ELSE got.a = <<>>

\* C16 witness: the remote answered with the lower score first and query
\* returned the two results in that order.
C16_Witness ==
    \E t \in Tasks :
        /\ pc[t] = "done" /\ op[t] = "query"
        /\ response[t] = Arr(<<TextPart(TxtResultsAscending)>>)
        /\ outcome[t] = Returned(Arr(<<Hit("v2", 82), Hit("v1", 95)>>))

\* The topK a query call is made with: the caller's, or the default.
EffectiveTopK(p) == IF p.topK.t = "undefined" THEN DefaultTopK ELSE p.topK.n

\* C17: the sequence query returns is never longer than the effective topK
\* of the call, whatever the remote answered.
C17_LengthWithinTopK ==
    \A t \in Tasks :
        (pc[t] = "done" /\ op[t] = "query" /\ outcome[t].status = "returned")
            => Len(outcome[t].value.a) <= EffectiveTopK(input[t])

\* C17, amended: query asks the remote for the effective topK (top_k of the
\* request) and returns as many results as the remote's answer holds, so the
\* returned sequence is no longer than the effective topK whenever the
\* remote's answer is not.
C17_LengthIsRemoteLength ==
    \A t \in Tasks :
        (pc[t] = "done" /\ op[t] = "query" /\ outcome[t].status = "returned")
            => LET remote == RemoteResults(response[t])
                   n == IF remote.t = "array" THEN Len(remote.a) ELSE 0
               IN /\ Len(sent[t]) = 1
                  /\ sent[t][1].arguments.f.top_k = Num(EffectiveTopK(input[t]))
                  /\ Len(outcome[t].value.a) = n
                  /\ n <= EffectiveTopK(input[t])
                        => Len(outcome[t].value.a) <= EffectiveTopK(input[t])

\* C17 witness: a query with topK 2 was answered with two results and
\* returned two.
C17_Witness ==
    \E t \in Tasks :
        /\ pc[t] = "done" /\ op[t] = "query"
        /\ input[t].topK = Num(2)
        /\ response[t] = Arr(<<TextPart(TxtResultsDescending)>>)
        /\ outcome[t].status = "returned"
        /\ Len(outcome[t].value.a) = 2

\* C18: every qortex_explore request carries a depth of 1, 2 or 3.
C18_ExploreDepthInRange ==
    \A t \in Tasks :
        \A i \in 1..Len(sent[t]) :
            sent[t][i].name = "qortex_explore"
                => sent[t][i].arguments.f.depth \in {Num(n) : n \in 1..3}

\* What the caller supplied, or d when the caller left it out.
SuppliedOr(v, d) == IF v = Undef THEN d ELSE v

\* C19: every create-index request carries a metric, the caller's or cosine
\* when the caller gave none; every query request carries top_k and
\* include_vector, the caller's or 10 and false when the caller gave none.
C19_DefaultsAppliedLocally ==
    \A t \in Tasks :
        \A i \in 1..Len(sent[t]) :
            LET args == sent[t][i].arguments.f IN
            /\ op[t] = "createIndex"
               => /\ args.metric = SuppliedOr(input[t].metric, Str("cosine"))
                  /\ args.metric.t = "string"
            /\ op[t] = "query"
               => /\ args.top_k = SuppliedOr(input[t].topK, Num(10))
                  /\ args.top_k.t = "number"
                  /\ args.include_vector =
                        SuppliedOr(input[t].includeVector, Bool(FALSE))
                  /\ args.include_vector.t = "boolean"

\* C19 witness: a query without topK and includeVector was sent with top_k
\* 10 and include_vector false.
C19_Witness ==
    \E t \in Tasks :
        /\ op[t] = "query" /\ Len(sent[t]) = 1
        /\ input[t].topK = Undef /\ input[t].includeVector = Undef
        /\ sent[t][1].arguments.f.top_k = Num(10)
        /\ sent[t][1].arguments.f.include_vector = Bool(FALSE)

\* C19 witness of a supplied value: a create-index with metric euclidean was
\* sent with euclidean.
C19_WitnessSupplied ==
    \E t \in Tasks :
        /\ op[t] = "createIndex" /\ Len(sent[t]) = 1
        /\ input[t].metric = Str("euclidean")
        /\ sent[t][1].arguments.f.metric = Str("euclidean")

\* The optional parameters of operation o that have no default, each as the
\* pair of its key in the request and the value the caller gave.
OptionalFields(o, p) ==
    CASE o = "upsert" -> {<<"metadata", p.metadata>>, <<"ids", p.ids>>}
      [] o = "query" -> {<<"filter", p.filter>>}
      [] o = "updateVector" ->
            {<<"id", p.id>>, <<"filter", p.filter>>,
             <<"vector", p.update.vector>>, <<"metadata", p.update.metadata>>}
      [] o = "deleteVectors" -> {<<"ids", p.ids>>, <<"filter", p.filter>>}
      [] o = "textQuery" -> {<<"domains", p.options.domains>>}
      [] o = "getRules" ->
            {<<"domains", p.options.domains>>,
             <<"concept_ids", p.options.conceptIds>>,
             <<"categories", p.options.categories>>}
      [] OTHER -> {}

\* The keys of the optional parameters of operation o that have a default.
DefaultedKeys(o) ==
    CASE o = "query" -> {"top_k", "include_vector"}
      [] o = "textQuery" -> {"top_k", "min_confidence", "mode"}
      [] o = "getRules" -> {"include_derived", "min_confidence"}
      [] OTHER -> {}

\* C20: in every request of upsert, query, updateVector, deleteVectors,
\* textQuery and getRules, no optional field is left out of the argument
\* mapping: each optional field without a default that the caller left unset
\* (or gave as null) is present with the value undefined, and each one the
\* caller provided, the empty list, the empty mapping and the empty string
\* included, is present with the caller's value.
C20_UnsetFieldsAreExplicit ==
    \A t \in Tasks :
        \A i \in 1..Len(sent[t]) :
            LET args == sent[t][i].arguments.f IN
            /\ DefaultedKeys(op[t]) \subseteq DOMAIN args
            /\ \A kv \in OptionalFields(op[t], input[t]) :
                  /\ kv[1] \in DOMAIN args
                  /\ kv[2].t \in {"undefined", "null"} => args[kv[1]] = Undef
                  /\ kv[2].t \notin {"undefined", "null"} => args[kv[1]] = kv[2]

\* C20 witness: a deleteVectors with an explicitly empty ids list and no
\* filter was sent with ids [] and with the key filter present and undefined.
C20_Witness ==
    \E t \in Tasks :
        /\ op[t] = "deleteVectors" /\ Len(sent[t]) = 1
        /\ input[t].ids = EmptyArr /\ input[t].filter = Undef
        /\ sent[t][1].arguments.f.ids = EmptyArr
        /\ "filter" \in DOMAIN sent[t][1].arguments.f
        /\ sent[t][1].arguments.f.filter = Undef

\* The method names of the operation table, as pairs of operation and name.
MethodTable ==
    {<<"createIndex", "qortex_vector_create_index">>,
     <<"listIndexes", "qortex_vector_list_indexes">>,
     <<"describeIndex", "qortex_vector_describe_index">>,
     <<"deleteIndex", "qortex_vector_delete_index">>,
     <<"upsert", "qortex_vector_upsert">>,
     <<"query", "qortex_vector_query">>,
     <<"updateVector", "qortex_vector_update">>,
     <<"deleteVector", "qortex_vector_delete">>,
     <<"deleteVectors", "qortex_vector_delete_many">>,
     <<"textQuery", "qortex_query">>,
     <<"explore", "qortex_explore">>,
     <<"getRules", "qortex_rules">>,
     <<"feedback", "qortex_feedback">>}

\* C21: every request of an adapter operation names the method the table
\* gives for that operation, whatever the parameters and the state of the
\* client; the table has one name per operation and no name twice.
C21_FixedDistinctMethodNames ==
    /\ \A t \in Tasks :
          \A i \in 1..Len(sent[t]) :
              op[t] \in AdapterOps => <<op[t], sent[t][i].name>> \in MethodTable
    /\ \A o \in AdapterOps : \E e \in MethodTable : e[1] = o
    /\ \A d, e \in MethodTable : (d[1] = e[1]) <=> (d[2] = e[2])
    /\ \A o1, o2 \in AdapterOps : o1 # o2 => ToolName(o1) # ToolName(o2)

\* C21 witness: a deleteVectors request went out as qortex_vector_delete_many.
C21_Witness ==
    \E t \in Tasks :
        /\ op[t] = "deleteVectors" /\ Len(sent[t]) = 1
        /\ sent[t][1].name = "qortex_vector_delete_many"

\* C22: when the process of the connection the client holds exits (its
\* channel closes with no call of the client taking a step), the client
\* reads disconnected afterwards.
C22_ExitDisconnects ==
    [][\A i \in Conns :
          (chan[i] = "open" /\ chan'[i] = "closed" /\ pc' = pc /\ client = i)
              => ~connected']_vars

\* C23: at most one spawned process is alive (one channel open) at a time.
C23_AtMostOneProcess ==
    Cardinality({i \in Conns : chan[i] = "open"}) <= 1

\* The payload of a response: the value parsed from its first textual part,
\* the empty mapping when it has none to parse.
RemotePayload(content) ==
    IF FirstTextParseable(content)
    THEN JSONParse(FirstTextPart(content).text.s).value
    ELSE EmptyObj

\* C24: no step changes the configuration; the step that completes a
\* request (with a result or a failure) changes nothing of the client, not
\* even the connection status; what a completed operation gives its caller
\* is a function of the operation and of the response to its own request;
\* and describeIndex returns the dimension, count and metric of that
\* response.
C24_NoStateAcrossCalls ==
    [][/\ config' = config
       /\ \A t \in Tasks :
             /\ (pc[t] = "call_await" /\ pc'[t] = "done")
                => UNCHANGED clientVars
             /\ (pc'[t] = "done" /\ response'[t] # NoResponse)
                => outcome'[t] = OpOutcome(op'[t], DecodeContent(response'[t]))
             /\ (/\ pc'[t] = "done" /\ response'[t] # NoResponse
                 /\ op'[t] = "describeIndex"
                 /\ outcome'[t].status = "returned")
                => outcome'[t].value =
                      Obj([dimension |-> Get(RemotePayload(response'[t]), "dimension"),
                           count |-> Get(RemotePayload(response'[t]), "count"),
                           metric |-> Get(RemotePayload(response'[t]), "metric")])]_vars

\* C24 witness: a describeIndex answered with dimension 4, count 5 and
\* metric cosine returned these three.
C24_Witness ==
    \E t \in Tasks :
        /\ pc[t] = "done" /\ op[t] = "describeIndex"
        /\ response[t] = Arr(<<TextPart(TxtStats)>>)
        /\ outcome[t] =
              Returned(Obj([dimension |-> Num(4), count |-> Num(5),
                            metric |-> Str("cosine")]))

\* The caller gave this selector (it is neither undefined nor null).
Given(v) == v.t \notin {"undefined", "null"}

\* C25: an updateVector that succeeded was called with exactly one of id
\* and filter.
C25_UpdateNeedsOneSelector ==
    \A t \in Tasks :
        (pc[t] = "done" /\ op[t] = "updateVector"
            /\ outcome[t].status = "returned")
            => (Given(input[t].id) /\ ~Given(input[t].filter))
               \/ (~Given(input[t].id) /\ Given(input[t].filter))

\* C26: the connected flag is true only while the client handle is set.
C26_ConnectedHasClient == connected => client # Null

\* C28: once a disconnect() has completed and left the client without a
\* transport, and no connect() is in progress, no transport that connect()
\* ever created is still open.
C28_DisconnectClosesAll ==
    (/\ \E t \in Tasks : pc[t] = "done" /\ op[t] = "disconnect"
     /\ transport = Null
     /\ \A t \in Tasks : pc[t] # "connect_await")
        => \A i \in Conns : chan[i] # "open"

\* C27: a request that is answered with an error payload or an unparseable
\* text leaves the client as it was, connected on the client the request
\* went out on; and the next operation of the caller starts no connect(),
\* spawns nothing and sends its request on that same client.
C27_PayloadFailureKeepsConnection ==
    [][\A t \in Tasks :
          /\ (pc[t] = "call_await" /\ pc'[t] = "done"
                 /\ PayloadFailure(outcome'[t]))
             => /\ UNCHANGED clientVars
                /\ connected
                /\ client = req[t]
          /\ (failedOn'[t] # Null /\ IsCall(op'[t]))
             => /\ pc'[t] # "connect_await"
                /\ created' = created
                /\ pc'[t] = "call_await" => req'[t] = failedOn'[t]]_vars

\* C27 witness: after a call that failed on its payload, the next operation
\* is in flight on the same spawned client, and nothing else was spawned.
C27_Witness ==
    \E t \in Tasks :
        /\ failedOn[t] \in Conns
        /\ IsCall(op[t]) /\ pc[t] = "call_await"
        /\ req[t] = failedOn[t]
        /\ created = 1

====
